---- MODULE Spec2Model ----
(***************************************************************************)
(* Model of the MCP tool server of langchain_with_mcp: the tool handlers   *)
(* of server.py, the data-access adapters of db_helpers.py and the         *)
(* external-call adapter of api_helpers.py.                                *)
(*                                                                         *)
(* Every tool invocation runs as a coroutine on one event loop: a step of  *)
(* the model is the code between two awaits.  The customers table and the  *)
(* weather service are the environment: a query acts atomically on the     *)
(* table, create_pool / a query / the HTTP GET may fail.                   *)
(***************************************************************************)
EXTENDS Integers, Sequences, FiniteSets, TLC

(***************************************************************************)
(* Bounds of the model.                                                    *)
(***************************************************************************)
NumProcs == 2     \* invocation slots that may overlap
MaxId == 2        \* identifiers the table can assign: 1..MaxId
MaxPeriods == 6   \* longest periods list of a forecast payload

Procs == 1..NumProcs
Ids == 1..MaxId

(***************************************************************************)
(* Python values.  An Optional is a sequence of length 0 (None) or 1.      *)
(* Text that is searched is a sequence of one-character strings.           *)
(***************************************************************************)
None == <<>>

Some(v) == <<v>>

Anna == <<"A", "n", "n", "a">>

Susan == <<"S", "u", "s", "a", "n">>

Bo == <<"B", "o">>

EmptyStr == <<>>

\* bool(x) of an Optional[str]: None and "" are falsy
TruthyStr(o) == o # None /\ o[1] # EmptyStr

\* bool(x) of an Optional[int]: None and 0 are falsy
TruthyInt(o) == o # None /\ o[1] # 0

MailA == <<"a", "@", "x">>

MailB == <<"b", "@", "y">>

(***************************************************************************)
(* The customers table (PostgreSQL, reached through asyncpg).  A row is a  *)
(* record; the table is a set of rows with pairwise distinct id.           *)
(***************************************************************************)
Row(id, name, email, age, prefer_package) ==
    [id |-> id, name |-> name, email |-> email, age |-> age,
     prefer_package |-> prefer_package]

RECURSIVE SortById(_)
\* the rows of a result set as a list, in id order
SortById(rows) ==
    IF rows = {} THEN <<>>
    ELSE LET first == CHOOSE r \in rows : \A q \in rows : r.id <= q.id
         IN  <<first>> \o SortById(rows \ {first})

\* lower(c) for the characters used
Lower(c) ==
    CASE c = "A" -> "a"
      [] c = "B" -> "b"
      [] c = "N" -> "n"
      [] c = "S" -> "s"
      [] OTHER -> c

RECURSIVE LikeMatch(_, _)
\* PostgreSQL's  s ILIKE pat : % is any run, _ any one character, \ escapes
LikeMatch(pat, s) ==
    IF pat = <<>> THEN s = <<>>
    ELSE IF Head(pat) = "%"
         THEN LikeMatch(Tail(pat), s) \/ (s # <<>> /\ LikeMatch(pat, Tail(s)))
    ELSE IF Head(pat) = "_"
         THEN s # <<>> /\ LikeMatch(Tail(pat), Tail(s))
    ELSE IF Head(pat) = "\\" /\ Len(pat) >= 2
         THEN s # <<>> /\ Lower(Head(s)) = Lower(pat[2])
              /\ LikeMatch(Tail(Tail(pat)), Tail(s))
    ELSE s # <<>> /\ Lower(Head(s)) = Lower(Head(pat))
         /\ LikeMatch(Tail(pat), Tail(s))

\* SELECT * FROM customers
SelectAll(table) == SortById(table)

\* SELECT * FROM customers WHERE id = $1   (fetchrow: a row or None)
SelectById(table, id) ==
    IF \E r \in table : r.id = id
    THEN Some(CHOOSE r \in table : r.id = id)
    ELSE None

\* SELECT * FROM customers WHERE name ILIKE $1
SelectByNameILike(table, pattern) ==
    SortById({r \in table : r.name # None /\ LikeMatch(pattern, r.name[1])})

\* an INSERT that may assign any identifier
AnyIds(table) == Ids

\* the identifiers INSERT may assign: any one no row of the table carries
FreshIds(table) == Ids \ {r.id : r \in table}

\* INSERT INTO customers (...) VALUES ($1, $2, $3, $4), the id assigned by the table
InsertRow(table, id, name, email, age, prefer_package) ==
    table \cup {Row(id, name, email, age, prefer_package)}

\* UPDATE customers SET name = $1, email = $2, age = $3, prefer_package = $5 WHERE id = $4
UpdateRows(table, id, name, email, age, prefer_package) ==
    {IF r.id = id THEN Row(id, name, email, age, prefer_package) ELSE r : r \in table}

\* DELETE FROM customers WHERE id = $1
DeleteRows(table, id) == {r \in table : r.id # id}

\* the decimal digits of a row count
CountStr(n) == IF n = 0 THEN "0" ELSE IF n = 1 THEN "1" ELSE "2+"

\* the status asyncpg's execute returns for a DELETE: the words "DELETE <count>"
DeleteStatus(table, id) ==
    <<"DELETE", CountStr(Cardinality({r \in table : r.id = id}))>>

(***************************************************************************)
(* db_helpers.py: what each adapter computes around its query.             *)
(***************************************************************************)
\* an adapter's return value
Rows(rows) == [kind |-> "rows", rows |-> rows]

OptRow(row) == [kind |-> "row", row |-> row]

Flag(b) == [kind |-> "flag", ok |-> b]

Raise(exc) == [kind |-> "raise", exc |-> exc]

Pending == [kind |-> "pending"]

DbTools == {"list_customers", "get_customer", "create_customer",
            "modify_customer", "remove_customer", "find_customers_by_name",
            "update_customer"}

\* the pool get_connection_pool returns: a new pool of this call
get_connection_pool(p) == [kind |-> "pool", owner |-> p, for |-> "db"]

\* a close that leaves the resource open
LeaveOpen(resources, r) == resources

\* `await pool.close()` / leaving `async with httpx.AsyncClient()`
Close(resources, r) == resources \ {r}

\* `if not pool: ... return []/None/False`
OnPoolFailure(tool) ==
    CASE tool \in {"list_customers", "find_customers_by_name"} -> Rows(<<>>)
      [] tool = "remove_customer" -> Flag(FALSE)
      [] OTHER -> OptRow(None)

\* a handler that lets the exception out
Reraise(tool) == Raise("Exception")

\* `except Exception as e: ... return []/None/False`
OnQueryFailure(tool) ==
    CASE tool \in {"list_customers", "find_customers_by_name"} -> Rows(<<>>)
      [] tool = "remove_customer" -> Flag(FALSE)
      [] OTHER -> OptRow(None)

\* search_pattern = f"%{name}%"
SearchPattern(name) == <<"%">> \o name \o <<"%">>

\* `'DELETE' in result` : the status contains the word DELETE
DeleteSucceeded(status) == \E i \in 1..Len(status) : status[i] = "DELETE"

\* a merge that writes the argument as it is
Overwrite(arg, cur) == arg

\* `x if x is not None else current[...]`
Merge(arg, cur) == IF arg # None THEN arg ELSE cur

\* the values update_customer writes for the row it read
Merged(c, cur) ==
    Row(cur.id, Merge(c.name, cur.name), Merge(c.email, cur.email),
        Merge(c.age, cur.age), Merge(c.prefer_package, cur.prefer_package))

(***************************************************************************)
(* server.py: the text a handler returns.  A text is its fixed opening     *)
(* line, the value interpolated into it, and its blocks of labelled fields.*)
(***************************************************************************)
NoArg == [none |-> TRUE]

IdArg(customer_id) == [id |-> customer_id]

NameArg(name) == [name |-> name]

Text(head, arg, blocks) ==
    [raised |-> FALSE, head |-> head, arg |-> arg, blocks |-> blocks]

Raised(exc) == [raised |-> TRUE, head |-> exc, arg |-> NoArg, blocks |-> <<>>]

NoOut == [raised |-> FALSE, head |-> "", arg |-> NoArg, blocks |-> <<>>]

\* dict.get(key, default): the default is used only when the key is missing
DictGet(d, key) ==
    IF key \in DOMAIN d THEN [found |-> TRUE, value |-> d[key]]
    ELSE [found |-> FALSE, value |-> None]

\* f"{customer.get(key, 'N/A')}" : str() of the value, None prints as None
FmtOr(g, default) ==
    IF ~g.found THEN [lit |-> default, val |-> None]
    ELSE IF g.value = None THEN [lit |-> "None", val |-> None]
    ELSE [lit |-> "", val |-> g.value]

\* f"{customer.get(key)}" : a missing key prints as None
Fmt(g) == FmtOr(g, "None")

\* the block of list_customers, get_customer and find_customers_by_name
BlockNA(customer) ==
    [ID |-> Fmt(DictGet(customer, "id")),
     Name |-> FmtOr(DictGet(customer, "name"), "N/A"),
     Email |-> FmtOr(DictGet(customer, "email"), "N/A"),
     Age |-> FmtOr(DictGet(customer, "age"), "N/A"),
     PreferPackage |-> FmtOr(DictGet(customer, "prefer_package"), "N/A")]

\* the block of create_customer and modify_customer
BlockNew(customer) ==
    [ID |-> Fmt(DictGet(customer, "id")),
     Name |-> Fmt(DictGet(customer, "name")),
     Email |-> Fmt(DictGet(customer, "email")),
     Age |-> FmtOr(DictGet(customer, "age"), "N/A"),
     PreferPackage |-> FmtOr(DictGet(customer, "prefer_package"), "N/A")]

\* dict(row) of a row with its id column as a Python value
AsDict(row) == [row EXCEPT !.id = Some(row.id)]

Blocks(rows) == [i \in 1..Len(rows) |-> BlockNA(AsDict(rows[i]))]

list_customers(customers) ==
    IF customers = <<>> THEN Text("No customers found in the database.", NoArg, <<>>)
    ELSE Text("Customers:", None, Blocks(customers))

get_customer(customer_id, customer) ==
    IF customer = None THEN Text("No customer found with ID:", IdArg(customer_id), <<>>)
    ELSE Text("Customer Details:", NoArg, <<BlockNA(AsDict(customer[1]))>>)

\* `if not name or not email`
CreateRejects(c) == ~TruthyStr(c.name) \/ ~TruthyStr(c.email)

create_customer(customer) ==
    IF customer = None
    THEN Text("Failed to create customer. Please check database connection and try again.",
              NoArg, <<>>)
    ELSE Text("Customer created successfully:", NoArg, <<BlockNew(AsDict(customer[1]))>>)

\* `if not any([name, email, age, prefer_package])`
ModifyRejects(c) ==
    ~(TruthyStr(c.name) \/ TruthyStr(c.email) \/ TruthyInt(c.age)
      \/ TruthyInt(c.prefer_package))

modify_customer(customer_id, customer) ==
    IF customer = None
    THEN Text("Failed to update customer with ID: . Customer may not exist.",
              IdArg(customer_id), <<>>)
    ELSE Text("Customer updated successfully:", NoArg, <<BlockNew(AsDict(customer[1]))>>)

remove_customer(customer_id, success) ==
    IF ~success
    THEN Text("Failed to delete customer with ID: . Customer may not exist.",
              IdArg(customer_id), <<>>)
    ELSE Text("Customer with ID: has been successfully deleted.", IdArg(customer_id), <<>>)

\* `if not name`
FindRejects(c) == ~TruthyStr(c.name)

find_customers_by_name(name, customers) ==
    IF customers = <<>> THEN Text("No customers found with name containing:", NameArg(name), <<>>)
    ELSE Text("Found customer(s) matching:", NameArg(name), Blocks(customers))

\* the handler's early return for a missing required argument
Rejects(c) ==
    CASE c.tool = "create_customer" -> CreateRejects(c)
      [] c.tool = "modify_customer" -> ModifyRejects(c)
      [] c.tool = "find_customers_by_name" -> FindRejects(c)
      [] OTHER -> FALSE

RejectionText(c) ==
    CASE c.tool = "create_customer" ->
           Text("Error: Customer name and email are required.", NoArg, <<>>)
      [] c.tool = "modify_customer" ->
           Text("Error: At least one field (name, email, or phone) must be provided for update.",
                NoArg, <<>>)
      [] OTHER -> Text("Error: Customer name is required for searching.", NoArg, <<>>)

\* the adapter a call runs: a tool's handler calls one adapter, and
\* update_customer is also called as it is, without a handler
AdapterOf(tool) ==
    CASE tool = "list_customers" -> "get_customers"
      [] tool = "get_customer" -> "get_customer_by_id"
      [] tool = "create_customer" -> "add_customer"
      [] tool = "modify_customer" -> "update_customer"
      [] tool = "remove_customer" -> "delete_customer"
      [] tool = "find_customers_by_name" -> "get_customer_by_name"
      [] OTHER -> tool

\* what the handler of a customer tool returns for its adapter's return value
DbHandler(c, r) ==
    CASE r.kind = "raise" -> Raised(r.exc)
      [] c.tool = "update_customer" -> NoOut
      [] c.tool = "list_customers" -> list_customers(r.rows)
      [] c.tool = "get_customer" -> get_customer(c.customer_id, r.row)
      [] c.tool = "create_customer" -> create_customer(r.row)
      [] c.tool = "modify_customer" -> modify_customer(c.customer_id, r.row)
      [] c.tool = "remove_customer" -> remove_customer(c.customer_id, r.ok)
      [] OTHER -> find_customers_by_name(c.name, r.rows)

(***************************************************************************)
(* api_helpers.py and the weather handlers of server.py.  A parsed JSON    *)
(* object is a function from its keys; {} is the function with no key.     *)
(***************************************************************************)
ForecastLimit == 5

EmptyObj == <<>>

\* the outcomes of client.get / raise_for_status / response.json
RequestError == [kind |-> "request_error", body |-> EmptyObj]

StatusError == [kind |-> "status_error", body |-> EmptyObj]

BadJson == [kind |-> "bad_json", body |-> EmptyObj]

Json(body) == [kind |-> "json", body |-> body]

\* the client `async with httpx.AsyncClient() as client` creates
AsyncClient(p, u) == [kind |-> "client", owner |-> p, for |-> u]

\* make_nws_request: the parsed body, or None from each except branch
make_nws_request(resp) ==
    CASE resp.kind = "json" -> [kind |-> "data", data |-> Some(resp.body)]
      [] resp.kind = "status_error" -> [kind |-> "data", data |-> None]
      [] resp.kind = "request_error" -> [kind |-> "data", data |-> None]
      [] resp.kind = "bad_json" -> [kind |-> "data", data |-> None]
      [] OTHER -> [kind |-> "data", data |-> None]

\* `not data` of an Optional[dict]
Falsy(data) == data = None \/ DOMAIN data[1] = {}

Sep == [sep |-> "---"]

RECURSIVE Join(_)
\* "\n---\n".join(blocks)
Join(blocks) ==
    IF Len(blocks) <= 1 THEN blocks
    ELSE <<Head(blocks), Sep>> \o Join(Tail(blocks))

\* props.get(key, default)
PropOr(props, key, default) ==
    IF key \in DOMAIN props THEN props[key] ELSE default

\* format_alert: feature["properties"] raises KeyError when the key is missing
FormatAlertRaises(feature) == "properties" \notin DOMAIN feature

format_alert(feature) ==
    LET props == feature["properties"]
    IN  [Event |-> PropOr(props, "event", "Unknown"),
         Area |-> PropOr(props, "areaDesc", "Unknown"),
         Severity |-> PropOr(props, "severity", "Unknown"),
         Description |-> PropOr(props, "description", "No description available"),
         Instructions |-> PropOr(props, "instruction", "No specific instructions provided")]

\* a get_alerts that reads a missing feature list as an empty one
get_alerts_defaulting(data) ==
    IF Falsy(data) \/ "features" \notin DOMAIN data[1] \/ data[1]["features"] = <<>>
    THEN Text("No active alerts for this state.", NoArg, <<>>)
    ELSE Text("", NoArg, <<>>)

get_alerts(data) ==
    IF Falsy(data) \/ "features" \notin DOMAIN data[1]
    THEN Text("Unable to fetch alerts or no alerts found.", NoArg, <<>>)
    ELSE LET features == data[1]["features"]
         IN  IF features = <<>>
             THEN Text("No active alerts for this state.", NoArg, <<>>)
             ELSE IF \E i \in 1..Len(features) : FormatAlertRaises(features[i])
             THEN Raised("KeyError")
             ELSE Text("", NoArg,
                       Join([i \in 1..Len(features) |-> format_alert(features[i])]))

\* points_data["properties"]["forecast"] raises KeyError when a key is missing
PointsRaises(points_data) ==
    \/ "properties" \notin DOMAIN points_data[1]
    \/ "forecast" \notin DOMAIN points_data[1]["properties"]

\* get_forecast up to its second request: its result, or "go on"
GoOn == [raised |-> FALSE, head |-> "go on", arg |-> NoArg, blocks |-> <<>>]

ForecastAfterPoints(points_data) ==
    IF Falsy(points_data)
    THEN Text("Unable to fetch forecast data for this location.", NoArg, <<>>)
    ELSE IF PointsRaises(points_data) THEN Raised("KeyError")
    ELSE GoOn

PeriodKeys == {"name", "temperature", "temperatureUnit", "windSpeed",
               "windDirection", "detailedForecast"}

\* period['name'] ... raise KeyError when a key is missing
PeriodRaises(period) == ~(PeriodKeys \subseteq DOMAIN period)

FormatPeriod(period) ==
    [Name |-> period["name"], Temperature |-> period["temperature"],
     Unit |-> period["temperatureUnit"],
     Wind |-> <<period["windSpeed"], period["windDirection"]>>,
     Forecast |-> period["detailedForecast"]]

\* a slice that keeps every period
AllPeriods(periods) == periods

\* periods[:5]
FirstPeriods(periods) ==
    SubSeq(periods, 1, IF Len(periods) < ForecastLimit THEN Len(periods) ELSE ForecastLimit)

\* get_forecast from the second response on
ForecastAfterForecast(forecast_data) ==
    IF Falsy(forecast_data)
    THEN Text("Unable to fetch detailed forecast.", NoArg, <<>>)
    ELSE IF \/ "properties" \notin DOMAIN forecast_data[1]
            \/ "periods" \notin DOMAIN forecast_data[1]["properties"]
    THEN Raised("KeyError")
    ELSE LET shown == FirstPeriods(forecast_data[1]["properties"]["periods"])
         IN  IF \E i \in 1..Len(shown) : PeriodRaises(shown[i])
             THEN Raised("KeyError")
             ELSE Text("", NoArg, Join([i \in 1..Len(shown) |-> FormatPeriod(shown[i])]))

(***************************************************************************)
(* State.                                                                  *)
(***************************************************************************)
VARIABLES
    customers,  \* the customers table
    open,       \* the pools and clients that are open
    used,       \* <<resource, slot>>: the slot's call has used the resource
    created,    \* the row the call before this one created, else None
    pc,         \* the await each slot's call is suspended at
    call,       \* the tool or adapter called and its arguments
    pool,       \* db_helpers: the local `pool`
    client,     \* api_helpers: the local `client`
    url,        \* the request make_nws_request is making
    current,    \* update_customer: the local `current`
    status,     \* delete_customer: the local `result` (the DELETE status)
    result,     \* the adapter's return value
    fault,      \* the failure the environment injected into this call
    out         \* what the handler returned to the tool caller

vars == <<customers, open, used, created, pc, call, pool, client, url, current,
          status, result, fault, out>>

Call(tool, customer_id, name, email, age, prefer_package) ==
    [tool |-> tool, customer_id |-> customer_id, name |-> name, email |-> email,
     age |-> age, prefer_package |-> prefer_package]

NoCall == Call("none", None, None, None, None, None)

Init ==
    /\ customers = {}
    /\ open = {}
    /\ used = {}
    /\ created = None
    /\ pc = [p \in Procs |-> "idle"]
    /\ call = [p \in Procs |-> NoCall]
    /\ pool = [p \in Procs |-> None]
    /\ client = [p \in Procs |-> None]
    /\ url = [p \in Procs |-> "none"]
    /\ current = [p \in Procs |-> None]
    /\ status = [p \in Procs |-> <<>>]
    /\ result = [p \in Procs |-> Pending]
    /\ fault = [p \in Procs |-> "none"]
    /\ out = [p \in Procs |-> NoOut]

(***************************************************************************)
(* A call starts.  The handler runs to its first await: it returns its     *)
(* requirement error, or enters the adapter, which awaits create_pool or,  *)
(* the client created, the GET.                                            *)
(***************************************************************************)
Reject(p, calls) ==
    /\ pc[p] = "idle"
    /\ \E c \in calls :
         /\ Rejects(c)
         /\ call' = [call EXCEPT ![p] = c]
         /\ out' = [out EXCEPT ![p] = RejectionText(c)]
    /\ pc' = [pc EXCEPT ![p] = "done"]
    /\ created' = None
    /\ UNCHANGED <<customers, open, used, pool, client, url, current, status,
                   result, fault>>

StartDb(p, calls) ==
    /\ pc[p] = "idle"
    /\ \E c \in calls :
         /\ c.tool \in DbTools
         /\ ~Rejects(c)
         /\ call' = [call EXCEPT ![p] = c]
         /\ created' = IF c.tool = "get_customer" THEN created ELSE None
    /\ pc' = [pc EXCEPT ![p] = "create_pool"]
    /\ UNCHANGED <<customers, open, used, pool, client, url, current, status,
                   result, fault, out>>

\* get_connection_pool: asyncpg.create_pool succeeds
CreatePool(p) ==
    /\ pc[p] = "create_pool"
    /\ pool' = [pool EXCEPT ![p] = Some(get_connection_pool(p))]
    /\ open' = open \cup {get_connection_pool(p)}
    /\ pc' = [pc EXCEPT ![p] = "query"]
    /\ UNCHANGED <<customers, used, created, call, client, url, current, status,
                   result, fault, out>>

\* get_connection_pool: asyncpg.create_pool raises, the adapter returns at once
CreatePoolFails(p) ==
    /\ pc[p] = "create_pool"
    /\ fault' = [fault EXCEPT ![p] = "pool"]
    /\ result' = [result EXCEPT ![p] = OnPoolFailure(call[p].tool)]
    /\ out' = [out EXCEPT ![p] = DbHandler(call[p], OnPoolFailure(call[p].tool))]
    /\ pc' = [pc EXCEPT ![p] = "done"]
    /\ UNCHANGED <<customers, open, used, created, call, pool, client, url,
                   current, status>>

(***************************************************************************)
(* The adapter's statement, awaited on a connection of its pool.  Each     *)
(* statement acts on the table in one step.                                *)
(***************************************************************************)
AtQuery(p, adapter) ==
    /\ pc[p] = "query"
    /\ AdapterOf(call[p].tool) = adapter
    /\ used' = used \cup {<<pool[p][1], p>>}

\* get_customers: conn.fetch("SELECT * FROM customers")
QueryAll(p) ==
    /\ AtQuery(p, "get_customers")
    /\ result' = [result EXCEPT ![p] = Rows(SelectAll(customers))]
    /\ pc' = [pc EXCEPT ![p] = "close"]
    /\ UNCHANGED <<customers, open, created, call, pool, client, url, current,
                   status, fault, out>>

\* get_customer_by_id: conn.fetchrow(... WHERE id = $1)
QueryById(p) ==
    /\ AtQuery(p, "get_customer_by_id")
    /\ result' = [result EXCEPT ![p] = OptRow(SelectById(customers, call[p].customer_id[1]))]
    /\ pc' = [pc EXCEPT ![p] = "close"]
    /\ UNCHANGED <<customers, open, created, call, pool, client, url, current,
                   status, fault, out>>

\* get_customer_by_name: conn.fetch(... WHERE name ILIKE $1, search_pattern)
QueryByName(p) ==
    /\ AtQuery(p, "get_customer_by_name")
    /\ result' = [result EXCEPT ![p] =
                    Rows(SelectByNameILike(customers, SearchPattern(call[p].name[1])))]
    /\ pc' = [pc EXCEPT ![p] = "close"]
    /\ UNCHANGED <<customers, open, created, call, pool, client, url, current,
                   status, fault, out>>

\* add_customer: conn.fetchrow("INSERT ... RETURNING *")
QueryInsert(p) ==
    /\ AtQuery(p, "add_customer")
    /\ \E id \in FreshIds(customers) :
         LET c == call[p]
         IN  /\ customers' = InsertRow(customers, id, c.name, c.email, c.age,
                                       c.prefer_package)
             /\ result' = [result EXCEPT ![p] =
                   OptRow(SelectById(customers', id))]
    /\ pc' = [pc EXCEPT ![p] = "close"]
    /\ UNCHANGED <<open, created, call, pool, client, url, current, status,
                   fault, out>>

\* delete_customer: conn.execute("DELETE ...") and the test of its status
QueryDelete(p) ==
    /\ AtQuery(p, "delete_customer")
    /\ LET st == DeleteStatus(customers, call[p].customer_id[1])
       IN  /\ status' = [status EXCEPT ![p] = st]
           /\ result' = [result EXCEPT ![p] = Flag(DeleteSucceeded(st))]
    /\ customers' = DeleteRows(customers, call[p].customer_id[1])
    /\ pc' = [pc EXCEPT ![p] = "close"]
    /\ UNCHANGED <<open, created, call, pool, client, url, current, fault, out>>

\* update_customer: current = conn.fetchrow("SELECT ... WHERE id = $1")
QueryCurrent(p) ==
    /\ AtQuery(p, "update_customer")
    /\ LET cur == SelectById(customers, call[p].customer_id[1])
       IN  /\ current' = [current EXCEPT ![p] = cur]
           /\ IF cur = None
              THEN /\ result' = [result EXCEPT ![p] = OptRow(None)]
                   /\ pc' = [pc EXCEPT ![p] = "close"]
              ELSE /\ result' = result
                   /\ pc' = [pc EXCEPT ![p] = "update"]
    /\ UNCHANGED <<customers, open, created, call, pool, client, url, status,
                   fault, out>>

\* an update that merged with the row as it is when the UPDATE runs
QueryUpdateRereading(p) ==
    /\ pc[p] = "update"
    /\ used' = used \cup {<<pool[p][1], p>>}
    /\ LET id == call[p].customer_id[1]
           now == SelectById(customers, id)
           new == Merged(call[p], IF now = None THEN current[p][1] ELSE now[1])
       IN  /\ customers' = UpdateRows(customers, id, new.name, new.email, new.age,
                                      new.prefer_package)
           /\ result' = [result EXCEPT ![p] = OptRow(SelectById(customers', id))]
    /\ pc' = [pc EXCEPT ![p] = "close"]
    /\ UNCHANGED <<open, created, call, pool, client, url, current, status,
                   fault, out>>

\* update_customer: row = conn.fetchrow("UPDATE ... RETURNING *") of the merged values
QueryUpdate(p) ==
    /\ pc[p] = "update"
    /\ used' = used \cup {<<pool[p][1], p>>}
    /\ LET id == call[p].customer_id[1]
           new == Merged(call[p], current[p][1])
       IN  /\ customers' = UpdateRows(customers, id, new.name, new.email, new.age,
                                      new.prefer_package)
           /\ result' = [result EXCEPT ![p] = OptRow(SelectById(customers', id))]
    /\ pc' = [pc EXCEPT ![p] = "close"]
    /\ UNCHANGED <<open, created, call, pool, client, url, current, status,
                   fault, out>>

\* pool.acquire or the statement raises: `except Exception` returns the empty outcome
QueryFails(p) ==
    /\ pc[p] \in {"query", "update"}
    /\ fault' = [fault EXCEPT ![p] = "query"]
    /\ result' = [result EXCEPT ![p] = OnQueryFailure(call[p].tool)]
    /\ pc' = [pc EXCEPT ![p] = "close"]
    /\ UNCHANGED <<customers, open, used, created, call, pool, client, url,
                   current, status, out>>

\* `finally: await pool.close()`, then the adapter returns and the handler formats
ClosePool(p) ==
    /\ pc[p] = "close"
    /\ open' = Close(open, pool[p][1])
    /\ used' = {u \in used : u[1] # pool[p][1]}
    /\ out' = [out EXCEPT ![p] = DbHandler(call[p], result[p])]
    /\ pc' = [pc EXCEPT ![p] = "done"]
    /\ UNCHANGED <<customers, created, call, pool, client, url, current, status,
                   result, fault>>

\* the tool caller takes the result; the call's locals are gone
Return(p) ==
    /\ pc[p] = "done"
    /\ created' = IF call[p].tool = "create_customer" /\ result[p].kind = "row"
                  THEN result[p].row ELSE None
    /\ pc' = [pc EXCEPT ![p] = "idle"]
    /\ call' = [call EXCEPT ![p] = NoCall]
    /\ pool' = [pool EXCEPT ![p] = None]
    /\ client' = [client EXCEPT ![p] = None]
    /\ url' = [url EXCEPT ![p] = "none"]
    /\ current' = [current EXCEPT ![p] = None]
    /\ status' = [status EXCEPT ![p] = <<>>]
    /\ result' = [result EXCEPT ![p] = Pending]
    /\ fault' = [fault EXCEPT ![p] = "none"]
    /\ out' = [out EXCEPT ![p] = NoOut]
    /\ UNCHANGED <<customers, open, used>>

(***************************************************************************)
(* The weather tools.  make_nws_request creates its client, awaits the GET *)
(* and leaves the `async with`, which closes the client.                   *)
(***************************************************************************)
WeatherTools == {"get_alerts", "get_forecast"}

StartWeather(p, calls) ==
    /\ pc[p] = "idle"
    /\ \E c \in calls :
         /\ c.tool \in WeatherTools
         /\ call' = [call EXCEPT ![p] = c]
         /\ url' = [url EXCEPT ![p] = IF c.tool = "get_alerts" THEN "alerts" ELSE "points"]
    /\ client' = [client EXCEPT ![p] = Some(AsyncClient(p, url'[p]))]
    /\ open' = open \cup {AsyncClient(p, url'[p])}
    /\ created' = None
    /\ pc' = [pc EXCEPT ![p] = "get"]
    /\ UNCHANGED <<customers, used, pool, current, status, result, fault, out>>

\* response = await client.get(...), raise_for_status, response.json
Get(p, responses) ==
    /\ pc[p] = "get"
    /\ used' = used \cup {<<client[p][1], p>>}
    /\ \E resp \in responses[url[p]] :
         /\ result' = [result EXCEPT ![p] = make_nws_request(resp)]
         /\ fault' = [fault EXCEPT ![p] =
                        IF resp.kind = "json" THEN fault[p] ELSE resp.kind]
    /\ pc' = [pc EXCEPT ![p] = "aclose"]
    /\ UNCHANGED <<customers, open, created, call, pool, client, url, current,
                   status, out>>

\* the result of the handler once make_nws_request has returned
WeatherHandler(u, r) ==
    CASE r.kind = "raise" -> Raised(r.exc)
      [] u = "alerts" -> get_alerts(r.data)
      [] u = "points" -> ForecastAfterPoints(r.data)
      [] OTHER -> ForecastAfterForecast(r.data)

\* the client is closed, make_nws_request returns, the handler returns
CloseClient(p) ==
    /\ pc[p] = "aclose"
    /\ WeatherHandler(url[p], result[p]) # GoOn
    /\ open' = Close(open, client[p][1])
    /\ used' = {u \in used : u[1] # client[p][1]}
    /\ client' = [client EXCEPT ![p] = None]
    /\ out' = [out EXCEPT ![p] = WeatherHandler(url[p], result[p])]
    /\ pc' = [pc EXCEPT ![p] = "done"]
    /\ UNCHANGED <<customers, created, call, pool, url, current, status, result,
                   fault>>

\* the client is closed and get_forecast calls make_nws_request(forecast_url)
CloseClientAndRequestForecast(p) ==
    /\ pc[p] = "aclose"
    /\ WeatherHandler(url[p], result[p]) = GoOn
    /\ open' = Close(open, client[p][1]) \cup {AsyncClient(p, "forecast")}
    /\ used' = {u \in used : u[1] # client[p][1]}
    /\ client' = [client EXCEPT ![p] = Some(AsyncClient(p, "forecast"))]
    /\ url' = [url EXCEPT ![p] = "forecast"]
    /\ result' = [result EXCEPT ![p] = Pending]
    /\ pc' = [pc EXCEPT ![p] = "get"]
    /\ UNCHANGED <<customers, created, call, pool, current, status, fault, out>>

(***************************************************************************)
(* The calls and the responses the environment chooses from.               *)
(***************************************************************************)
AgeArgs == {None, Some(0), Some(30)}

PkgArgs == {None, Some(2)}

SearchArgs == {None, Some(EmptyStr), Some(<<"a", "n">>), Some(<<"A", "N">>),
               Some(<<"n", "n">>), Some(<<"_">>), Some(<<"%">>), Some(Bo)}

IdArgs == {Some(id) : id \in Ids}

\* the customer the updates are made to, the others being created, read and deleted
UpdatedIds == {Some(CHOOSE id \in Ids : \A other \in Ids : id <= other)}

\* name, email, age, prefer_package of create_customer
CreateArgs ==
    {None, Some(EmptyStr), Some(Anna), Some(Susan)}
    \X {None, Some(EmptyStr), Some(MailA)} \X AgeArgs \X PkgArgs

\* name, email, age, prefer_package of modify_customer
ModifyArgs ==
    {None, Some(EmptyStr), Some(Susan)} \X {None, Some(MailB)} \X AgeArgs \X PkgArgs

\* one call at a time: every tool, every combination of its arguments, and
\* update_customer itself with the arguments modify_customer does not forward
SeqCalls ==
    {Call("list_customers", None, None, None, None, None)}
    \cup {Call("get_customer", id, None, None, None, None) : id \in IdArgs}
    \cup {Call("remove_customer", id, None, None, None, None) : id \in IdArgs}
    \cup {Call("find_customers_by_name", None, n, None, None, None) : n \in SearchArgs}
    \cup {Call("create_customer", None, f[1], f[2], f[3], f[4]) : f \in CreateArgs}
    \cup {Call("modify_customer", a[1], a[2][1], a[2][2], a[2][3], a[2][4]) :
             a \in UpdatedIds \X ModifyArgs}
    \cup {c \in {Call("update_customer", a[1], a[2][1], a[2][2], a[2][3], a[2][4]) :
                    a \in UpdatedIds \X ModifyArgs} : ModifyRejects(c)}

\* the bodies the weather service may answer with
Flood == [properties |-> [event |-> "Flood", areaDesc |-> "Coast", severity |-> "Severe",
                          description |-> "Water", instruction |-> "Leave"]]

Wind == [properties |-> [event |-> "Wind"]]

NoProperties == [id |-> "x"]

Period(name) ==
    [name |-> name, temperature |-> "70", temperatureUnit |-> "F", windSpeed |-> "5 mph",
     windDirection |-> "N", detailedForecast |-> "Sunny"]

BadPeriod == [name |-> "c"]

SeqsUpTo(S, n) == UNION {[1..k -> S] : k \in 0..n}

PeriodLists ==
    SeqsUpTo({Period("a"), Period("b")}, MaxPeriods)
    \cup {<<BadPeriod>>, <<Period("a"), BadPeriod>>,
          [i \in 1..MaxPeriods |-> IF i = MaxPeriods THEN BadPeriod ELSE Period("a")]}

Failures == {RequestError, StatusError, BadJson}

WeatherResponses ==
    [u \in {"alerts", "points", "forecast"} |->
       Failures \cup
       CASE u = "alerts" ->
              {Json(EmptyObj), Json(NoProperties), Json([features |-> <<>>]),
               Json([features |-> <<Flood>>]), Json([features |-> <<Flood, Wind>>]),
               Json([features |-> <<NoProperties>>]),
               Json([features |-> <<Flood, NoProperties>>])}
         [] u = "points" ->
              {Json(EmptyObj), Json(NoProperties), Json([properties |-> EmptyObj]),
               Json([properties |-> [forecast |-> "forecast_url"]])}
         [] OTHER ->
              {Json(EmptyObj), Json(NoProperties), Json([properties |-> EmptyObj])}
              \cup {Json([properties |-> [periods |-> ps]]) : ps \in PeriodLists}]

WeatherCalls ==
    {Call("get_alerts", None, None, None, None, None),
     Call("get_forecast", None, None, None, None, None)}

\* overlapping calls: every tool, a few arguments and responses each
ConcCalls ==
    {Call("list_customers", None, None, None, None, None),
     Call("get_customer", Some(1), None, None, None, None),
     Call("remove_customer", Some(1), None, None, None, None),
     Call("find_customers_by_name", None, Some(<<"a", "n">>), None, None, None),
     Call("find_customers_by_name", None, None, None, None, None),
     Call("create_customer", None, Some(Anna), Some(MailA), None, None),
     Call("modify_customer", Some(1), Some(Susan), None, None, None),
     Call("modify_customer", Some(1), None, None, Some(30), None)}
    \cup WeatherCalls

ConcResponses ==
    [u \in {"alerts", "points", "forecast"} |->
       CASE u = "alerts" -> {RequestError, Json([features |-> <<>>])}
         [] u = "points" -> {StatusError, Json([properties |-> [forecast |-> "forecast_url"]])}
         [] OTHER -> {BadJson, Json([properties |-> [periods |-> <<Period("a")>>]])}]

\* the slot that runs the calls made one after the other
First == CHOOSE p \in Procs : \A q \in Procs : p <= q

\* the tools called one after the other: every argument of the customer tools,
\* a few responses of the weather service
NextSeq ==
    \E p \in {First} :
        \/ Reject(p, SeqCalls)
        \/ StartDb(p, SeqCalls)
        \/ CreatePool(p)
        \/ CreatePoolFails(p)
        \/ QueryAll(p)
        \/ QueryById(p)
        \/ QueryByName(p)
        \/ QueryInsert(p)
        \/ QueryDelete(p)
        \/ QueryCurrent(p)
        \/ QueryUpdate(p)
        \/ QueryFails(p)
        \/ ClosePool(p)
        \/ StartWeather(p, WeatherCalls)
        \/ Get(p, ConcResponses)
        \/ CloseClient(p)
        \/ CloseClientAndRequestForecast(p)
        \/ Return(p)

SpecSeq == Init /\ [][NextSeq]_vars

\* the weather tools, called one after the other
NextWeather ==
    \E p \in {First} :
        \/ StartWeather(p, WeatherCalls)
        \/ Get(p, WeatherResponses)
        \/ CloseClient(p)
        \/ CloseClientAndRequestForecast(p)
        \/ Return(p)

SpecWeather == Init /\ [][NextWeather]_vars

\* every tool, the calls overlapping as the event loop allows
Next ==
    \E p \in Procs :
        \/ Reject(p, ConcCalls)
        \/ StartDb(p, ConcCalls)
        \/ CreatePool(p)
        \/ CreatePoolFails(p)
        \/ QueryAll(p)
        \/ QueryById(p)
        \/ QueryByName(p)
        \/ QueryInsert(p)
        \/ QueryDelete(p)
        \/ QueryCurrent(p)
        \/ QueryUpdate(p)
        \/ QueryFails(p)
        \/ ClosePool(p)
        \/ StartWeather(p, ConcCalls)
        \/ Get(p, ConcResponses)
        \/ CloseClient(p)
        \/ CloseClientAndRequestForecast(p)
        \/ Return(p)

Spec == Init /\ [][Next]_vars

\* overlapping calls that create and update customers, delete none and meet
\* no failure, so that a stored row changes by an update only
UpdateCalls ==
    {c \in ConcCalls : c.tool \in {"create_customer", "modify_customer"}}

NextUpdates ==
    \E p \in Procs :
        \/ StartDb(p, UpdateCalls)
        \/ CreatePool(p)
        \/ QueryInsert(p)
        \/ QueryCurrent(p)
        \/ QueryUpdate(p)
        \/ ClosePool(p)
        \/ Return(p)

SpecUpdates == Init /\ [][NextUpdates]_vars

(***************************************************************************)
(* Properties.                                                             *)
(***************************************************************************)
\* the resource the call of slot p holds in its local `pool` or `client`
Held(p) == {r \in open : pool[p] = Some(r) \/ client[p] = Some(r)}

InAdapter(p) == pc[p] \in {"query", "update", "close", "get", "aclose"}

\* C1: under any interleaving, every open pool/client was created by a call in
\* flight that holds it in its own local, it is used by that call only, a call
\* inside its adapter holds exactly one open pool/client of its own, and once a
\* call has returned (with any outcome) or its pool creation failed, nothing it
\* created is open and it holds nothing.
OwnResourceClosedOnReturn ==
    /\ \A r \in open : InAdapter(r.owner) /\ r \in Held(r.owner)
    /\ \A u \in used : u[1].owner = u[2] /\ u[1] \in Held(u[2])
    /\ \A p \in Procs :
         /\ InAdapter(p) => \E r \in Held(p) : r.owner = p /\ Held(p) = {r}
         /\ pc[p] \in {"done", "idle"} => \A r \in open : r.owner # p
         /\ fault[p] = "pool" => pool[p] = None /\ Held(p) = {}

\* two overlapping calls, one returned after a query failure with its pool closed,
\* the other still using its own open pool
OverlapWitness ==
    \E p, q \in Procs :
        /\ p # q
        /\ pc[p] = "done" /\ fault[p] = "query" /\ pool[p] # None
        /\ pc[q] = "close" /\ <<pool[q][1], q>> \in used
        /\ open = {pool[q][1]}

\* C2 (as claimed): delete_customer returns true exactly when the DELETE removed
\* at least one row: false for an identifier no customer has, true for one a
\* customer has.
DeleteFlagIffRowRemoved ==
    \A p \in Procs :
        (pc[p] = "done" /\ call[p].tool = "remove_customer" /\ fault[p] = "none")
        => (result[p].ok <=> status[p] # <<"DELETE", "0">>)

\* the unsupplied fields of an update's call
Unsupplied(c) ==
    {f \in {"name", "email", "age", "prefer_package"} : c[f] = None}

\* C3: an update run alone reads the stored row, and when it returns a record,
\* the record and the stored row carry the identifier and, in every field the
\* call did not supply, the value the row had before the update; with no field
\* supplied the returned record is the pre-update record.
UpdateKeepsUnsuppliedFields ==
    \A p \in Procs :
        LET c == call[p]
            id == c.customer_id[1]
        IN  /\ pc[p] = "update" =>
                 current[p] # None /\ current[p] = SelectById(customers, id)
            /\ (/\ pc[p] \in {"close", "done"}
                /\ AdapterOf(c.tool) = "update_customer"
                /\ current[p] # None)
               => /\ result[p].kind = "row"
                  /\ fault[p] = "none" => result[p].row # None
                  /\ fault[p] # "none" => SelectById(customers, id) = current[p]
                  /\ result[p].row # None =>
                       LET pre == current[p][1]
                           ret == result[p].row[1]
                           now == SelectById(customers, id)[1]
                       IN  /\ ret.id = id /\ pre.id = id /\ now.id = id
                           /\ \A f \in Unsupplied(c) : ret[f] = pre[f] /\ now[f] = pre[f]
                           /\ Unsupplied(c) = {"name", "email", "age", "prefer_package"}
                                => ret = pre

\* an update that supplied only the age and changed it, and one that supplied nothing
UpdateWitness ==
    \E p \in Procs :
        /\ pc[p] = "done" /\ call[p].tool = "modify_customer"
        /\ Unsupplied(call[p]) = {"name", "email", "prefer_package"}
        /\ result[p].kind = "row" /\ result[p].row # None
        /\ result[p].row[1].age # current[p][1].age
        /\ result[p].row[1].prefer_package # None

UpdateNothingWitness ==
    \E p \in Procs :
        /\ pc[p] = "done" /\ call[p].tool = "update_customer"
        /\ Unsupplied(call[p]) = {"name", "email", "age", "prefer_package"}
        /\ result[p].kind = "row" /\ result[p].row # None

\* the step in which slot p's add_customer gets its row back
Creates(p) ==
    /\ pc[p] = "query" /\ pc'[p] = "close"
    /\ call[p].tool = "create_customer"
    /\ result'[p].kind = "row" /\ result'[p].row # None

\* C4: the record a successful create returns carries an identifier no customer
\* of the table had before, and the supplied name, email, age and prefer_package
\* (None where not supplied); the table then holds exactly that record under the
\* identifier, and a get_customer_by_id of that identifier made right after the
\* create, when it meets no failure, returns the same record.
CreateReturnsFreshStoredRecord ==
    /\ [][\A p \in Procs : Creates(p) =>
            LET c == call[p]
                ret == result'[p].row[1]
            IN  /\ TruthyStr(c.name) /\ TruthyStr(c.email)
                /\ ret.id \notin {r.id : r \in customers}
                /\ ret = Row(ret.id, c.name, c.email, c.age, c.prefer_package)
                /\ {r \in customers' : r.id = ret.id} = {ret}]_vars
    /\ [](\A p \in Procs :
            (/\ pc[p] = "done" /\ call[p].tool = "get_customer"
             /\ created # None /\ call[p].customer_id = Some(created[1].id)
             /\ fault[p] = "none")
            => result[p] = OptRow(created))

\* a create made while another customer exists, then the get of its identifier
RefetchWitness ==
    \E p \in Procs :
        /\ pc[p] = "done" /\ call[p].tool = "get_customer"
        /\ created # None /\ call[p].customer_id = Some(created[1].id)
        /\ fault[p] = "none"
        /\ created[1].age = None /\ created[1].prefer_package = Some(2)
        /\ \E r \in customers : r.id # created[1].id

\* the outcome the error policy names for each adapter
EmptyOutcome(adapter) ==
    CASE adapter \in {"get_customers", "get_customer_by_name"} -> Rows(<<>>)
      [] adapter = "delete_customer" -> Flag(FALSE)
      [] OTHER -> OptRow(None)

\* C5: no adapter raises to its caller: after a pool-creation failure or a query
\* failure at any step the data-access adapter returns its empty / none / false
\* outcome, after a timeout or transport failure, a non-2xx status or an
\* unparseable body make_nws_request returns None, and the handler of a customer
\* tool returns a text.
AdaptersNeverRaise ==
    \A p \in Procs :
        /\ result[p].kind # "raise"
        /\ (pc[p] \in {"close", "done"} /\ fault[p] \in {"pool", "query"})
           => result[p] = EmptyOutcome(AdapterOf(call[p].tool))
        /\ (pc[p] \in {"aclose", "done"}
            /\ fault[p] \in {"request_error", "status_error", "bad_json"})
           => result[p] = [kind |-> "data", data |-> None]
        /\ (pc[p] = "done" /\ call[p].tool \in DbTools) => ~out[p].raised

\* an update whose UPDATE statement failed after its SELECT had found the row
FailureWitness ==
    \E p \in Procs :
        /\ pc[p] = "done" /\ call[p].tool = "modify_customer"
        /\ fault[p] = "query" /\ current[p] # None
        /\ out[p].head = "Failed to update customer with ID: . Customer may not exist."

AllFields == {"name", "email", "age", "prefer_package"}

\* a required argument is missing or empty; for modify_customer, whose
\* requirement is one field at least, no field was supplied
RequiredMissing(c) ==
    \/ c.tool = "create_customer" /\ (~TruthyStr(c.name) \/ ~TruthyStr(c.email))
    \/ c.tool = "find_customers_by_name" /\ ~TruthyStr(c.name)
    \/ c.tool = "modify_customer" /\ Unsupplied(c) = AllFields

\* C6 (as claimed): a tool returns its requirement error, no adapter called, no
\* pool created, exactly when a required argument is missing or empty; with any
\* other arguments, whatever the values of the optional fields supplied (0 and
\* empty text too), the adapter is called.
RejectedIffRequiredMissing ==
    \A p \in Procs :
        (pc[p] = "done" /\ call[p].tool \in DbTools \ {"update_customer"})
        => IF RequiredMissing(call[p])
           THEN out[p] = RejectionText(call[p]) /\ result[p] = Pending /\ pool[p] = None
           ELSE result[p] # Pending /\ out[p] # RejectionText(call[p])

\* C7 (as claimed): get_alerts and get_forecast return a text whatever the
\* upstream calls gave; no exception leaves the handler.
WeatherHandlersNeverRaise ==
    \A p \in Procs :
        (pc[p] = "done" /\ call[p].tool \in WeatherTools) => ~out[p].raised

LowerStr(s) == [i \in 1..Len(s) |-> Lower(s[i])]

\* t is a substring of s
Contains(s, t) ==
    \E i \in 0..(Len(s) - Len(t)) : SubSeq(s, i + 1, i + Len(t)) = t

\* C8 (as claimed): for a non-empty search text the search returns exactly the
\* stored customers whose name contains the text, compared case-insensitively.
SearchReturnsExactlySubstringMatches ==
    \A p \in Procs :
        (/\ pc[p] = "done" /\ call[p].tool = "find_customers_by_name"
         /\ TruthyStr(call[p].name) /\ fault[p] = "none")
        => /\ result[p].kind = "rows"
           /\ {result[p].rows[i] : i \in 1..Len(result[p].rows)}
              = {r \in customers :
                   Contains(LowerStr(r.name[1]), LowerStr(call[p].name[1]))}

\* C9: get_alerts returns "No active alerts for this state." when the upstream
\* call succeeded with an empty feature list, "Unable to fetch alerts or no
\* alerts found." when it gave no result, and the no-alerts message only after
\* a successful upstream call.
AlertsMessagesNotConfused ==
    \A p \in Procs :
        (pc[p] = "done" /\ call[p].tool = "get_alerts")
        => LET data == result[p].data
               none == "No active alerts for this state."
               unable == "Unable to fetch alerts or no alerts found."
           IN  /\ (/\ fault[p] = "none" /\ data # None
                   /\ "features" \in DOMAIN data[1] /\ data[1]["features"] = <<>>)
                  => out[p] = Text(none, NoArg, <<>>)
               /\ (fault[p] # "none" \/ data = None) => out[p] = Text(unable, NoArg, <<>>)
               /\ out[p].head = none => fault[p] = "none" /\ data # None

\* get_alerts returned the no-alerts message
NoAlertsWitness ==
    \E p \in Procs :
        /\ pc[p] = "done" /\ call[p].tool = "get_alerts"
        /\ out[p].head = "No active alerts for this state."

\* the blocks of a joined text
BlocksOf(text) == SelectSeq(text, LAMBDA b : b # Sep)

MinOf(a, b) == IF a < b THEN a ELSE b

\* C10: for a forecast payload with n periods (the ones shown carrying the six
\* attributes of a period) get_forecast renders exactly min(n, 5) blocks, those of
\* the first min(n, 5) periods in the order of the payload.
ForecastShowsFirstFive ==
    \A p \in Procs :
        (/\ pc[p] = "done" /\ call[p].tool = "get_forecast" /\ url[p] = "forecast"
         /\ result[p].data # None
         /\ "properties" \in DOMAIN result[p].data[1]
         /\ "periods" \in DOMAIN result[p].data[1]["properties"])
        => LET periods == result[p].data[1]["properties"]["periods"]
               k == MinOf(Len(periods), 5)
           IN  (\A i \in 1..k : PeriodKeys \subseteq DOMAIN periods[i])
               => /\ ~out[p].raised
                  /\ BlocksOf(out[p].blocks) = [i \in 1..k |-> FormatPeriod(periods[i])]
                  /\ Len(out[p].blocks) = IF k = 0 THEN 0 ELSE 2 * k - 1

\* a payload with more than five periods, not all alike, was rendered
TruncationWitness ==
    \E p \in Procs :
        /\ pc[p] = "done" /\ call[p].tool = "get_forecast" /\ url[p] = "forecast"
        /\ ~out[p].raised /\ Len(BlocksOf(out[p].blocks)) = 5
        /\ result[p].data # None
        /\ Len(result[p].data[1]["properties"]["periods"]) > 5
        /\ result[p].data[1]["properties"]["periods"][1]
           # result[p].data[1]["properties"]["periods"][2]

(***************************************************************************)
(* Rendering of absent optional fields.                                    *)
(***************************************************************************)
BlockTools == {"list_customers", "get_customer", "create_customer",
               "modify_customer", "find_customers_by_name"}

\* the rows an adapter handed to its handler, in the order of the blocks
RenderedRows(r) ==
    CASE r.kind = "rows" -> r.rows
      [] r.kind = "row" /\ r.row # None -> <<r.row[1]>>
      [] OTHER -> <<>>

\* C11: in every customer block of list_customers, get_customer,
\* create_customer, modify_customer and find_customers_by_name, an age or
\* prefer_package that is absent in the stored row is rendered as N/A
AbsentOptionalRendersNA ==
    \A p \in Procs :
        (pc[p] = "done" /\ call[p].tool \in BlockTools /\ ~out[p].raised) =>
            LET rows == RenderedRows(result[p])
                blocks == out[p].blocks
            IN  /\ Len(blocks) = Len(rows)
                /\ \A i \in 1..Len(rows) :
                     /\ rows[i].age = None => blocks[i].Age.lit = "N/A"
                     /\ rows[i].prefer_package = None =>
                            blocks[i].PreferPackage.lit = "N/A"

(***************************************************************************)
(* Overlapping updates of one customer.                                    *)
(***************************************************************************)
Supplied(c) == {"name", "email", "age", "prefer_package"} \ Unsupplied(c)

\* slot p runs an update_customer that supplies the single field f
UpdatesOnly(p, f) ==
    /\ AdapterOf(call[p].tool) = "update_customer"
    /\ Supplied(call[p]) = {f}

\* slot p's update read its row, wrote it and got the written row back
HasWritten(p) ==
    /\ pc[p] \in {"close", "done"}
    /\ fault[p] = "none"
    /\ current[p] # None
    /\ result[p].kind = "row" /\ result[p].row # None

\* the step in which slot q's UPDATE runs, after slot p's update of the same
\* customer, of another single field f, has written a new value: both had read
\* the same row before either wrote
WritesOver(p, q, f, g) ==
    /\ pc[q] = "update" /\ pc'[q] = "close" /\ fault'[q] = "none"
    /\ p # q /\ f # g
    /\ HasWritten(p)
    /\ UpdatesOnly(p, f) /\ UpdatesOnly(q, g)
    /\ call[p].customer_id = call[q].customer_id
    /\ current[q] = current[p]
    /\ current[p][1][f] # call[p][f]
    /\ SelectById(customers, call[p].customer_id[1]) = result[p].row
    /\ result[p].row[1][f] = call[p][f]

\* C12: when two update_customer calls on one existing customer, each supplying
\* a different single field, have both read the row before either wrote, the
\* second UPDATE writes the row it read with its own field only: it returns its
\* record as a success, and the stored record has the second value and, in the
\* first call's field, the value read before, not the value the first call
\* wrote and returned.
SecondWriteLosesFirst ==
    [][\A q \in {s \in Procs : pc[s] = "update" /\ pc'[s] = "close"} :
       \A p \in {s \in Procs : HasWritten(s)} :
       \A f \in Supplied(call[p]) : \A g \in Supplied(call[q]) :
          WritesOver(p, q, f, g) =>
              LET id == call[q].customer_id[1]
                  now == SelectById(customers', id)
              IN  /\ now # None
                  /\ result'[q] = OptRow(now)
                  /\ now[1][g] = call[q][g]
                  /\ now[1][f] = current[p][1][f]
                  /\ now[1][f] # call[p][f]
                  /\ result[p].row[1][f] = call[p][f]]_vars

\* both updates read the same row, in which neither supplied value stood, both
\* have returned their record to their handler, which reports the success, and
\* the stored record lacks the value the first one supplied
LostUpdateWitness ==
    \E p, q \in Procs : \E f, g \in {"name", "email", "age", "prefer_package"} :
        /\ p # q /\ f # g
        /\ UpdatesOnly(p, f) /\ UpdatesOnly(q, g)
        /\ call[p].customer_id = call[q].customer_id
        /\ HasWritten(p) /\ HasWritten(q)
        /\ pc[p] = "done" /\ pc[q] = "done"
        /\ out[p].head = "Customer updated successfully:"
        /\ out[q].head = "Customer updated successfully:"
        /\ current[p] = current[q]
        /\ current[p][1][f] # call[p][f]
        /\ current[q][1][g] # call[q][g]
        /\ result[p].row[1][f] = call[p][f]
        /\ LET now == SelectById(customers, call[p].customer_id[1])
           IN  /\ now # None
               /\ now[1][f] # call[p][f]
               /\ now[1][g] = call[q][g]

====
